---- MODULE Spec2Model ----
(***************************************************************************)
(* Model of src/sandbox/main.py: the environment table, the credentials    *)
(* loader (load_config), the OAuth2 client-credentials token acquisition   *)
(* (get_access_token) and the APIClient with its four request operations.  *)
(*                                                                         *)
(* Environment names are sequences of one-character strings so that        *)
(* str.lower() can be modelled character by character.  An optional value  *)
(* (Python None) is the empty sequence, a present value x is <<x>>.        *)
(* An exception is a record [cls, parts]: its Python class and the pieces  *)
(* of its formatted message, in order.                                     *)
(***************************************************************************)
EXTENDS Integers, Sequences, FiniteSets, TLC

VARIABLES
    jsonErrorClass,   \* class response.json() raises on a bad body (depends on the installed requests)
    call,             \* the last operation invoked by the caller, with its arguments
    client,           \* the APIClient instance (exists = FALSE before a successful construction)
    outcome,          \* how the last operation ended: returned a value or raised
    lastFileRead,     \* what the last operation saw of the credentials file
    lastTokenReply,   \* what the last operation exchanged with the token endpoint
    lastRequest,      \* the request the last operation handed to requests.<method>
    lastResponse,     \* what the network answered to lastRequest
    apiRequests,      \* number of HTTP requests dispatched to the target API so far
    nConstructs,      \* number of APIClient(...) calls so far
    nCalls            \* number of get/post/put/delete calls so far

vars == <<jsonErrorClass, call, client, outcome, lastFileRead, lastTokenReply,
          lastRequest, lastResponse, apiRequests,
          nConstructs, nCalls>>

(***************************************************************************)
(* Bounds of the exploration.                                              *)
(***************************************************************************)
MaxConstructs == 1
MaxCalls == 2

(***************************************************************************)
(* Optional values and strings.                                            *)
(***************************************************************************)
None == <<>>
Some(x) == <<x>>

RECURSIVE Join(_)
Join(s) == IF s = <<>> THEN "" ELSE s[1] \o Join(Tail(s))

\* the characters environment names are written with
UpperChars == <<"A", "C", "D", "E", "G", "I", "L", "N", "O", "P", "R", "S", "T", "V">>
LowerChars == <<"a", "c", "d", "e", "g", "i", "l", "n", "o", "p", "r", "s", "t", "v">>
OtherChars == {" ", "2", "u"}
Chars ==
    {UpperChars[i] : i \in 1..Len(UpperChars)} \cup {LowerChars[i] : i \in 1..Len(LowerChars)}
    \cup OtherChars

\* the lower-case form of each character
LowerChar ==
    [c \in Chars |->
        IF \E i \in 1..Len(UpperChars) : UpperChars[i] = c
        THEN LowerChars[CHOOSE i \in 1..Len(UpperChars) : UpperChars[i] = c]
        ELSE c]

\* a mutant of Lower: the name is compared as given
LowerIdentity(s) == s

\* str.lower()
Lower(s) == [i \in 1..Len(s) |-> LowerChar[s[i]]]

(***************************************************************************)
(* ENVIRONMENTS (main.py 10-26).                                           *)
(***************************************************************************)
EnvLocal == <<"l", "o", "c", "a", "l">>
EnvStaging == <<"s", "t", "a", "g", "i", "n", "g">>
EnvProd == <<"p", "r", "o", "d">>

\* a mutant of ENVIRONMENTS: local marked as requiring authentication
ENVIRONMENTS_localAuth ==
    [k \in {EnvLocal, EnvStaging, EnvProd} |->
        IF k = EnvLocal
        THEN [yaml_file |-> "~/idcarioca_staging.yaml",
              api_base_url |-> "http://localhost:8080", requires_auth |-> TRUE]
        ELSE IF k = EnvStaging
        THEN [yaml_file |-> "~/idcarioca_staging.yaml",
              api_base_url |-> "https://services.staging.app.dados.rio/rmi", requires_auth |-> TRUE]
        ELSE [yaml_file |-> "~/idcarioca_prod.yaml",
              api_base_url |-> "https://services.pref.rio/rmi", requires_auth |-> TRUE]]

ENVIRONMENTS ==
    [k \in {EnvLocal, EnvStaging, EnvProd} |->
        IF k = EnvLocal
        THEN [yaml_file |-> "~/idcarioca_staging.yaml",
              api_base_url |-> "http://localhost:8080", requires_auth |-> FALSE]
        ELSE IF k = EnvStaging
        THEN [yaml_file |-> "~/idcarioca_staging.yaml",
              api_base_url |-> "https://services.staging.app.dados.rio/rmi", requires_auth |-> TRUE]
        ELSE [yaml_file |-> "~/idcarioca_prod.yaml",
              api_base_url |-> "https://services.pref.rio/rmi", requires_auth |-> TRUE]]

(***************************************************************************)
(* Exceptions.                                                             *)
(***************************************************************************)
Err(cls, parts) == [cls |-> cls, parts |-> parts]
NoErr == Err("", <<>>)

\* direct base classes of the exception classes that occur
Bases(cls) ==
    CASE cls = "ValueError" -> {"Exception"}
      [] cls = "TypeError" -> {"Exception"}
      [] cls = "OSError" -> {"Exception"}
      [] cls = "FileNotFoundError" -> {"OSError"}
      [] cls = "PermissionError" -> {"OSError"}
      [] cls = "yaml.YAMLError" -> {"Exception"}
      [] cls = "json.JSONDecodeError" -> {"ValueError"}
      [] cls = "simplejson.JSONDecodeError" -> {"ValueError"}
      [] cls = "requests.exceptions.RequestException" -> {"OSError"}
      [] cls = "requests.exceptions.ConnectionError" -> {"requests.exceptions.RequestException"}
      [] cls = "requests.exceptions.Timeout" -> {"requests.exceptions.RequestException"}
      [] cls = "requests.exceptions.JSONDecodeError" ->
             {"requests.exceptions.RequestException", "json.JSONDecodeError"}
      [] OTHER -> {}

\* isinstance(e, base), as an except clause tests it
RECURSIVE IsA(_, _)
IsA(cls, base) == cls = base \/ \E b \in Bases(cls) : IsA(b, base)

(***************************************************************************)
(* The credentials file, as load_config can find it.  doc is the parsed    *)
(* document: null for an empty file, otherwise the top-level keys among    *)
(* the required ones, whether it has an oauth2 key, and the keys of that   *)
(* section.                                                                *)
(***************************************************************************)
required_fields == <<"issuer", "client_id", "client_secret">>
RequiredSet == {required_fields[i] : i \in 1..Len(required_fields)}

Doc(null, hasOauth2, top, section) ==
    [null |-> null, hasOauth2 |-> hasOauth2, top |-> top, section |-> section]
NullDoc == Doc(TRUE, FALSE, {}, {})

File(exists, readable, yaml_ok, json_ok, doc) ==
    [exists |-> exists, readable |-> readable, yaml_ok |-> yaml_ok,
     json_ok |-> json_ok, doc |-> doc]
AbsentFile == File(FALSE, FALSE, FALSE, FALSE, NullDoc)
UnreadableFile == File(TRUE, FALSE, FALSE, FALSE, NullDoc)
GarbageFile == File(TRUE, TRUE, FALSE, FALSE, NullDoc)

\* the value a credentials file gives to a field
CredValue(field) ==
    CASE field = "issuer" -> "https://idp.example/auth/realms/rmi"
      [] field = "client_id" -> "rmi-client"
      [] OTHER -> "s3cr3t"

LoadResult(raised, err, oauth_config, accesses) ==
    [raised |-> raised, err |-> err, oauth_config |-> oauth_config, accesses |-> accesses]

\* a mutant of MissingFields: only the first absent field is reported
MissingFieldsFirstOnly(oauth_config) ==
    LET all == SelectSeq(required_fields, LAMBDA f : f \notin oauth_config)
    IN  IF all = <<>> THEN <<>> ELSE <<all[1]>>

\* missing_fields = [field for field in required_fields if field not in oauth_config]
MissingFields(oauth_config) ==
    SelectSeq(required_fields, LAMBDA f : f \notin oauth_config)

\* the body of load_config's try block: the exception it raises, or the section it returns
LoadConfigTry(file) ==
    IF ~file.readable
    THEN LoadResult(TRUE, Err("PermissionError", <<"Permission denied">>), {}, 2)
    ELSE IF ~file.yaml_ok /\ ~file.json_ok
    THEN LoadResult(TRUE, Err("json.JSONDecodeError", <<"Expecting value">>), {}, 2)
    ELSE IF file.doc.null
    THEN LoadResult(TRUE, Err("TypeError", <<"argument of type 'NoneType' is not iterable">>), {}, 2)
    ELSE LET oauth_config == IF file.doc.hasOauth2 THEN file.doc.section ELSE file.doc.top
             missing_fields == MissingFields(oauth_config)
         IN  IF missing_fields # <<>>
             THEN LoadResult(TRUE, Err("ValueError",
                      <<"Missing required OAuth2 fields: ">> \o missing_fields), {}, 2)
             ELSE LoadResult(FALSE, NoErr, oauth_config, 2)

\* load_config(environment), given the file at the environment's yaml_file path
load_config(environment, file) ==
    IF Lower(environment) \notin DOMAIN ENVIRONMENTS
    THEN LoadResult(TRUE, Err("ValueError",
             <<"Invalid environment: ", Join(environment), ". Use 'local', 'staging', or 'prod'">>), {}, 0)
    ELSE LET config_file == ENVIRONMENTS[Lower(environment)].yaml_file
             r == LoadConfigTry(file)
         IN  IF ~file.exists
             THEN LoadResult(TRUE, Err("FileNotFoundError",
                      <<"Configuration file not found: ", config_file>>), {}, 1)
             ELSE IF ~r.raised
             THEN r
             ELSE IF IsA(r.err.cls, "yaml.YAMLError") \/ IsA(r.err.cls, "json.JSONDecodeError")
             THEN LoadResult(TRUE, Err("ValueError",
                      <<"Failed to parse configuration file: ">> \o r.err.parts), {}, r.accesses)
             ELSE LoadResult(TRUE, Err("Exception",
                      <<"Error loading configuration: ">> \o r.err.parts), {}, r.accesses)

(***************************************************************************)
(* HTTP replies.  fault is "" for a reply that arrived, otherwise the      *)
(* class of the requests exception the transport raised.  A token reply's  *)
(* body records its text and what json decoding makes of it.               *)
(***************************************************************************)
Body(text, kind, keys, access_token) ==
    [text |-> text, kind |-> kind, keys |-> keys, access_token |-> access_token]
NoBody == Body("", "garbage", {}, "")

Reply(fault, status, body) == [fault |-> fault, status |-> status, body |-> body]
NoReply == Reply("", 0, NoBody)

\* str(response.status_code)
StatusText(n) ==
    CASE n = 200 -> "200" [] n = 201 -> "201" [] n = 204 -> "204"
      [] n = 401 -> "401" [] n = 404 -> "404" [] n = 500 -> "500"
      [] OTHER -> "0"

TokenRequest(issuer, client_id, client_secret) ==
    [url |-> issuer \o "/protocol/openid-connect/token",
     data |-> <<<<"client_id", client_id>>, <<"client_secret", client_secret>>,
                <<"grant_type", "client_credentials">>, <<"scope", "profile email">>>>,
     content_type |-> "application/x-www-form-urlencoded",
     timeout |-> 30]
NoTokenRequest ==
    [url |-> "", data |-> <<>>, content_type |-> "", timeout |-> 0]

TokenResult(raised, err, token, accesses, request, posted, parsed) ==
    [raised |-> raised, err |-> err, token |-> token, accesses |-> accesses,
     request |-> request, posted |-> posted, parsed |-> parsed]

\* a mutant of TokenExchange: the status of the reply is not checked before the body is decoded
TokenExchangeNoStatusCheck(oauth_accesses, reply, jsonCls) ==
    LET req == TokenRequest(CredValue("issuer"), CredValue("client_id"), CredValue("client_secret"))
    IN  IF reply.fault # ""
        THEN TokenResult(TRUE, Err(reply.fault, <<"transport fault">>), None,
                         oauth_accesses, req, TRUE, FALSE)
        ELSE IF reply.body.kind = "garbage"
        THEN TokenResult(TRUE, Err(jsonCls, <<"Expecting value">>), None,
                         oauth_accesses, req, TRUE, TRUE)
        ELSE IF reply.body.kind # "object"
        THEN TokenResult(TRUE, Err("TypeError", <<"argument of type 'int' is not iterable">>), None,
                         oauth_accesses, req, TRUE, TRUE)
        ELSE IF "access_token" \notin reply.body.keys
        THEN TokenResult(TRUE, Err("Exception", <<"No access token received">>), None,
                         oauth_accesses, req, TRUE, TRUE)
        ELSE TokenResult(FALSE, NoErr, Some(reply.body.access_token),
                         oauth_accesses, req, TRUE, TRUE)

\* the body of get_access_token's try block, from the token request on
TokenExchange(oauth_accesses, reply, jsonCls) ==
    LET req == TokenRequest(CredValue("issuer"), CredValue("client_id"), CredValue("client_secret"))
    IN  IF reply.fault # ""
        THEN TokenResult(TRUE, Err(reply.fault, <<"transport fault">>), None,
                         oauth_accesses, req, TRUE, FALSE)
        ELSE IF reply.status # 200
        THEN TokenResult(TRUE, Err("Exception",
                 <<"Authentication failed with status: ", StatusText(reply.status)>>), None,
                         oauth_accesses, req, TRUE, FALSE)
        ELSE IF reply.body.kind = "garbage"
        THEN TokenResult(TRUE, Err(jsonCls, <<"Expecting value">>), None,
                         oauth_accesses, req, TRUE, TRUE)
        ELSE IF reply.body.kind # "object"
        THEN TokenResult(TRUE, Err("TypeError", <<"argument of type 'int' is not iterable">>), None,
                         oauth_accesses, req, TRUE, TRUE)
        ELSE IF "access_token" \notin reply.body.keys
        THEN TokenResult(TRUE, Err("Exception", <<"No access token received">>), None,
                         oauth_accesses, req, TRUE, TRUE)
        ELSE TokenResult(FALSE, NoErr, Some(reply.body.access_token),
                         oauth_accesses, req, TRUE, TRUE)

\* the body of get_access_token's try block
GetAccessTokenTry(environment, file, reply, jsonCls) ==
    IF Lower(environment) \notin DOMAIN ENVIRONMENTS
    THEN TokenResult(TRUE, Err("ValueError", <<"Invalid environment: ", Join(environment)>>),
                     None, 0, NoTokenRequest, FALSE, FALSE)
    ELSE IF ~ENVIRONMENTS[Lower(environment)].requires_auth
    THEN TokenResult(FALSE, NoErr, None, 0, NoTokenRequest, FALSE, FALSE)
    ELSE LET cfg == load_config(environment, file)
         IN  IF cfg.raised
             THEN TokenResult(TRUE, cfg.err, None, cfg.accesses, NoTokenRequest, FALSE, FALSE)
             ELSE TokenExchange(cfg.accesses, reply, jsonCls)

\* get_access_token(environment): the try block under its three except clauses
get_access_token(environment, file, reply, jsonCls) ==
    LET r == GetAccessTokenTry(environment, file, reply, jsonCls)
    IN  IF ~r.raised
        THEN r
        ELSE IF IsA(r.err.cls, "requests.exceptions.RequestException")
        THEN r
        ELSE IF IsA(r.err.cls, "json.JSONDecodeError")
        THEN [r EXCEPT !.err = Err("Exception", <<"Invalid token response format">>)]
        ELSE r

(***************************************************************************)
(* APIClient.                                                              *)
(***************************************************************************)
EmptyDict == [k \in {} |-> ""]

Client(exists, environment, base_url, access_token, headers) ==
    [exists |-> exists, environment |-> environment, base_url |-> base_url,
     access_token |-> access_token, headers |-> headers]
NoClient == Client(FALSE, <<>>, "", None, EmptyDict)

\* truth value of self.access_token: None and the empty string are false
Truthy(token) == token # None /\ token[1] # ""

\* self.headers as __init__ builds it
DefaultHeaders(access_token) ==
    IF Truthy(access_token)
    THEN [k \in {"Content-Type", "Authorization"} |->
             IF k = "Content-Type" THEN "application/json" ELSE "Bearer " \o access_token[1]]
    ELSE [k \in {"Content-Type"} |-> "application/json"]

InitResult(raised, err, newClient, token) ==
    [raised |-> raised, err |-> err, client |-> newClient, accesses |-> token.accesses,
     request |-> token.request, posted |-> token.posted, parsed |-> token.parsed]

NoTokenCall == TokenResult(FALSE, NoErr, None, 0, NoTokenRequest, FALSE, FALSE)

\* APIClient.__init__(environment)
APIClientInit(environment, file, reply, jsonCls) ==
    IF Lower(environment) \notin DOMAIN ENVIRONMENTS
    THEN InitResult(TRUE, Err("ValueError",
             <<"Invalid environment: ", Join(environment), ". Use 'local', 'staging', or 'prod'">>),
             NoClient, NoTokenCall)
    ELSE LET config == ENVIRONMENTS[Lower(environment)]
             tok == IF config.requires_auth
                    THEN get_access_token(environment, file, reply, jsonCls)
                    ELSE NoTokenCall
         IN  IF tok.raised
             THEN InitResult(TRUE, tok.err, NoClient, tok)
             ELSE InitResult(FALSE, NoErr,
                      Client(TRUE, Lower(environment), config.api_base_url, tok.token,
                             DefaultHeaders(tok.token)), tok)

\* truth value of a dict argument: None and the empty dict are false
DictTruthy(d) == d # None /\ DOMAIN d[1] # {}

\* a mutant of MergeHeaders: the defaults win on a key collision
MergeHeadersDefaultsWin(defaults, headers) ==
    LET extra == IF DictTruthy(headers) THEN headers[1] ELSE EmptyDict
    IN  [k \in DOMAIN defaults \cup DOMAIN extra |->
            IF k \in DOMAIN defaults THEN defaults[k] ELSE extra[k]]

\* request_headers = {**self.headers, **(headers or {})}
MergeHeaders(defaults, headers) ==
    LET extra == IF DictTruthy(headers) THEN headers[1] ELSE EmptyDict
    IN  [k \in DOMAIN defaults \cup DOMAIN extra |->
            IF k \in DOMAIN extra THEN extra[k] ELSE defaults[k]]

\* what post/put print as the body they send: json_data first, then data
LoggedBody(data, json_data) ==
    IF DictTruthy(json_data) THEN "JSON data"
    ELSE IF DictTruthy(data) THEN "Form data"
    ELSE "none"

SentBody(encoding, content) == [encoding |-> encoding, content |-> content]
NoSentBody == SentBody("none", EmptyDict)

\* the body requests.post/put(url, data=data, json=json_data) puts on the wire:
\* json is encoded only when data is empty
PreparedBody(data, json_data) ==
    IF ~DictTruthy(data) /\ json_data # None
    THEN SentBody("json", json_data[1])
    ELSE IF DictTruthy(data)
    THEN SentBody("form", data[1])
    ELSE NoSentBody

Request(sent, method, url, params, headers, body, logged, timeout) ==
    [sent |-> sent, method |-> method, url |-> url, params |-> params,
     headers |-> headers, body |-> body, logged |-> logged, timeout |-> timeout]
NoRequest == Request(FALSE, "", "", None, EmptyDict, NoSentBody, "none", 0)

Outcome(kind, err, response) == [kind |-> kind, err |-> err, response |-> response]
NoOutcome == Outcome("none", NoErr, NoReply)

\* a mutant of RequestOutcome: an error status is raised instead of returned
RequestOutcomeRaiseForStatus(reply) ==
    IF reply.fault # ""
    THEN Outcome("raised", Err(reply.fault, <<"transport fault">>), NoReply)
    ELSE IF reply.status >= 400
    THEN Outcome("raised", Err("requests.exceptions.HTTPError", <<StatusText(reply.status)>>), NoReply)
    ELSE Outcome("returned", NoErr, reply)

\* response = requests.<method>(...); return response
RequestOutcome(reply) ==
    IF reply.fault # ""
    THEN Outcome("raised", Err(reply.fault, <<"transport fault">>), NoReply)
    ELSE Outcome("returned", NoErr, reply)

\* a mutant of SelfAfterRequest: the per-call headers are merged into self.headers in place
SelfAfterRequestUpdated(self, request_headers) ==
    [self EXCEPT !.headers = request_headers]

\* the client object after a request method ran: no method assigns to self
SelfAfterRequest(self, request_headers) == self

Call(op, environment, path, params, data, json_data, headers) ==
    [op |-> op, environment |-> environment, path |-> path, params |-> params,
     data |-> data, json_data |-> json_data, headers |-> headers]
NoCall == Call("none", <<>>, "", None, None, None, None)

FileRead(accesses, path, file) == [accesses |-> accesses, path |-> path, file |-> file]
NoFileRead == FileRead(0, "", AbsentFile)

TokenReply(posted, request, reply, parsed) ==
    [posted |-> posted, request |-> request, reply |-> reply, parsed |-> parsed]
NoTokenReply == TokenReply(FALSE, NoTokenRequest, NoReply, FALSE)

(***************************************************************************)
(* Inputs.                                                                 *)
(***************************************************************************)
UpperChar(c) ==
    IF \E i \in 1..Len(LowerChars) : LowerChars[i] = c
    THEN UpperChars[CHOOSE i \in 1..Len(LowerChars) : LowerChars[i] = c]
    ELSE c

\* every upper/lower-case spelling of a lower-case name
CaseVariants(name) ==
    {[i \in 1..Len(name) |-> IF i \in U THEN UpperChar(name[i]) ELSE name[i]] :
        U \in SUBSET (1..Len(name))}

InvalidNames ==
    {<<>>, <<"d", "e", "v">>, <<"p", "r", "o", "d", "2">>, <<" ", "p", "r", "o", "d">>,
     <<"s", "t", "a", "g", "e">>, <<"L", "O", "C", "A", "L", "E">>,
     <<"p", "r", "o", "d", "u", "c", "t", "i", "o", "n">>}

AllEnvNames ==
    CaseVariants(EnvLocal) \cup CaseVariants(EnvStaging) \cup CaseVariants(EnvProd) \cup InvalidNames

EnvNames ==
    {EnvLocal, <<"L", "O", "C", "A", "L">>, EnvStaging, <<"S", "t", "a", "g", "i", "n", "g">>,
     EnvProd, <<"P", "R", "O", "D">>, <<>>, <<"d", "e", "v">>, <<"p", "r", "o", "d", "2">>}

Docs ==
    {NullDoc}
    \cup {Doc(FALSE, FALSE, top, {}) : top \in SUBSET RequiredSet}
    \cup {Doc(FALSE, TRUE, top, section) : top \in {{}, RequiredSet}, section \in SUBSET RequiredSet}

Files ==
    {AbsentFile, UnreadableFile, GarbageFile}
    \cup {File(TRUE, TRUE, TRUE, TRUE, doc) : doc \in Docs}
    \cup {File(TRUE, TRUE, p[1], p[2], Doc(FALSE, FALSE, top, {})) :
             p \in {<<TRUE, FALSE>>, <<FALSE, TRUE>>}, top \in {{"issuer"}, RequiredSet}}

FewFiles ==
    {AbsentFile, File(TRUE, TRUE, TRUE, TRUE, Doc(FALSE, TRUE, {}, RequiredSet))}

TokenBodies ==
    {Body("<html>Bad Gateway</html>", "garbage", {}, ""),
     Body("123", "number", {}, ""),
     Body("{\"token_type\":\"Bearer\",\"expires_in\":300}", "object", {"token_type", "expires_in"}, ""),
     Body("{\"access_token\":\"abc123\",\"expires_in\":300}", "object", {"access_token", "expires_in"}, "abc123"),
     Body("{\"access_token\":\"\"}", "object", {"access_token"}, "")}

TransportFaults == {"requests.exceptions.ConnectionError", "requests.exceptions.Timeout"}
ApiFaults == {"requests.exceptions.ConnectionError"}

TokenReplies ==
    {Reply(f, 0, NoBody) : f \in TransportFaults}
    \cup {Reply("", st, b) : st \in {200, 401, 500}, b \in TokenBodies}

FewTokenReplies ==
    {Reply("requests.exceptions.Timeout", 0, NoBody),
     Reply("", 200, Body("{\"access_token\":\"abc123\",\"expires_in\":300}", "object",
                         {"access_token", "expires_in"}, "abc123"))}

ApiReplies ==
    {Reply(f, 0, NoBody) : f \in ApiFaults}
    \cup {Reply("", st, Body("{\"data\":[]}", "object", {"data"}, "")) : st \in {200, 404}}

Paths == {"/v1/avatars"}
ParamArgs == {None, Some([k \in {"page"} |-> "1"])}
DataArgs == {None, Some(EmptyDict), Some([k \in {"name"} |-> "John Doe"])}
JsonArgs == {None, Some([k \in {"avatar_id"} |-> "7"])}
HeaderArgs ==
    {None,
     Some([k \in {"Content-Type"} |-> "text/plain"]),
     Some([k \in {"Authorization"} |-> "Bearer other"]),
     Some([k \in {"X-Request-Id"} |-> "r1"])}

JsonErrorClasses ==
    {"requests.exceptions.JSONDecodeError", "json.JSONDecodeError", "simplejson.JSONDecodeError"}

(***************************************************************************)
(* The state machine.                                                      *)
(***************************************************************************)
Init ==
    /\ jsonErrorClass \in JsonErrorClasses
    /\ call = NoCall
    /\ client = NoClient
    /\ outcome = NoOutcome
    /\ lastFileRead = NoFileRead
    /\ lastTokenReply = NoTokenReply
    /\ lastRequest = NoRequest
    /\ lastResponse = NoReply
    /\ apiRequests = 0
    /\ nConstructs = 0
    /\ nCalls = 0

\* the caller received the result r of APIClient(environment)
Constructed(environment, file, reply, r) ==
    /\ call' = Call("construct", environment, "", None, None, None, None)
    /\ client' = IF r.raised THEN client ELSE r.client
    /\ outcome' = IF r.raised THEN Outcome("raised", r.err, NoReply)
                              ELSE Outcome("returned", NoErr, NoReply)
    /\ lastFileRead' = IF r.accesses > 0
                       THEN FileRead(r.accesses, ENVIRONMENTS[Lower(environment)].yaml_file, file)
                       ELSE NoFileRead
    /\ lastTokenReply' = IF r.posted
                         THEN TokenReply(TRUE, r.request, reply, r.parsed)
                         ELSE NoTokenReply
    /\ lastRequest' = NoRequest
    /\ lastResponse' = NoReply
    /\ nConstructs' = nConstructs + 1
    /\ UNCHANGED <<jsonErrorClass, apiRequests, nCalls>>

\* the caller runs APIClient(environment) while the file and the token endpoint are as given
DoConstruct(environment, file, reply) ==
    \E r \in {APIClientInit(environment, file, reply, jsonErrorClass)} :
        Constructed(environment, file, reply, r)

\* a construction, with the file and the token reply drawn only when the code looks at them
ConstructFrom(names, files, replies) ==
    /\ ~client.exists
    /\ nConstructs < MaxConstructs
    /\ \E environment \in names :
          \E probe \in {APIClientInit(environment, GarbageFile, NoReply, jsonErrorClass)} :
             IF probe.accesses = 0
             THEN Constructed(environment, AbsentFile, NoReply, probe)
             ELSE \E file \in files :
                     \E r \in {APIClientInit(environment, file, NoReply, jsonErrorClass)} :
                        IF ~r.posted
                        THEN Constructed(environment, file, NoReply, r)
                        ELSE \E reply \in replies : DoConstruct(environment, file, reply)

Construct == ConstructFrom(EnvNames, Files, TokenReplies)

\* what every request method does once it has built its request
Dispatch(op, request, reply, args) ==
    /\ call' = args
    /\ client' = SelfAfterRequest(client, request.headers)
    /\ lastRequest' = request
    /\ lastResponse' = reply
    /\ outcome' = RequestOutcome(reply)
    /\ apiRequests' = apiRequests + 1
    /\ nCalls' = nCalls + 1
    /\ lastFileRead' = NoFileRead
    /\ lastTokenReply' = NoTokenReply
    /\ UNCHANGED <<jsonErrorClass, nConstructs>>

Get ==
    /\ client.exists
    /\ nCalls < MaxCalls
    /\ \E path \in Paths, params \in ParamArgs, headers \in HeaderArgs, reply \in ApiReplies :
          Dispatch("get",
                   Request(TRUE, "GET", client.base_url \o path, params,
                           MergeHeaders(client.headers, headers), NoSentBody, "none", 30),
                   reply, Call("get", <<>>, path, params, None, None, headers))

Post ==
    /\ client.exists
    /\ nCalls < MaxCalls
    /\ \E path \in Paths, data \in DataArgs, json_data \in JsonArgs,
          headers \in HeaderArgs, reply \in ApiReplies :
          Dispatch("post",
                   Request(TRUE, "POST", client.base_url \o path, None,
                           MergeHeaders(client.headers, headers),
                           PreparedBody(data, json_data), LoggedBody(data, json_data), 30),
                   reply, Call("post", <<>>, path, None, data, json_data, headers))

Put ==
    /\ client.exists
    /\ nCalls < MaxCalls
    /\ \E path \in Paths, data \in DataArgs, json_data \in JsonArgs,
          headers \in HeaderArgs, reply \in ApiReplies :
          Dispatch("put",
                   Request(TRUE, "PUT", client.base_url \o path, None,
                           MergeHeaders(client.headers, headers),
                           PreparedBody(data, json_data), LoggedBody(data, json_data), 30),
                   reply, Call("put", <<>>, path, None, data, json_data, headers))

Delete ==
    /\ client.exists
    /\ nCalls < MaxCalls
    /\ \E path \in Paths, headers \in HeaderArgs, reply \in ApiReplies :
          Dispatch("delete",
                   Request(TRUE, "DELETE", client.base_url \o path, None,
                           MergeHeaders(client.headers, headers), NoSentBody, "none", 30),
                   reply, Call("delete", <<>>, path, None, None, None, headers))

Next == Construct \/ Get \/ Post \/ Put \/ Delete

Spec == Init /\ [][Next]_vars

\* constructions only, over every spelling of the environment names
ConstructAnyName == ConstructFrom(AllEnvNames, FewFiles, FewTokenReplies)

NextEnv == ConstructAnyName

SpecEnv == Init /\ [][NextEnv]_vars

TypeOK ==
    /\ jsonErrorClass \in JsonErrorClasses
    /\ client.exists \in BOOLEAN
    /\ outcome.kind \in {"none", "returned", "raised"}
    /\ nConstructs \in 0..MaxConstructs
    /\ nCalls \in 0..MaxCalls

(***************************************************************************)
(* Vocabulary of the properties.                                           *)
(***************************************************************************)
LocalSpellings == CaseVariants(EnvLocal)
StagingSpellings == CaseVariants(EnvStaging)
ProdSpellings == CaseVariants(EnvProd)

RequestOps == {"get", "post", "put", "delete"}

ConstructedLast == call.op = "construct"
Failed == outcome.kind = "raised"
Succeeded == outcome.kind = "returned"

\* the pieces of an exception's message
ErrTexts(e) == {e.parts[i] : i \in 1..Len(e.parts)}

IsInvalidEnvironment(e) == e.cls = "ValueError" /\ "Invalid environment: " \in ErrTexts(e)
IsMissingCredentialFields(e) == "Missing required OAuth2 fields: " \in ErrTexts(e)
IsAuthenticationFailed(e) ==
    e.cls = "Exception" /\ "Authentication failed with status: " \in ErrTexts(e)
IsMalformedTokenResponse(e) ==
    /\ e.cls = "Exception"
    /\ ErrTexts(e) \cap {"Invalid token response format", "No access token received"} # {}
IsTransportError(e) == IsA(e.cls, "requests.exceptions.RequestException")

\* the token endpoint answered the last construction with an HTTP reply
TokenAnswered == ConstructedLast /\ lastTokenReply.posted /\ lastTokenReply.reply.fault = ""

(***************************************************************************)
(* C1: constructing a client for the local environment (requires_auth      *)
(* false) succeeds without reading the credentials file and without        *)
(* contacting the token endpoint, whatever the state of the file, and the  *)
(* default headers have no Authorization entry.                            *)
(***************************************************************************)
C1_LocalUnauthenticated ==
    (ConstructedLast /\ call.environment \in LocalSpellings) =>
        /\ Succeeded
        /\ client.exists
        /\ lastFileRead.accesses = 0
        /\ ~lastTokenReply.posted
        /\ "Authorization" \notin DOMAIN client.headers
        /\ \A f \in Files, r \in TokenReplies :
              LET res == APIClientInit(call.environment, f, r, jsonErrorClass)
              IN  ~res.raised /\ res.accesses = 0 /\ ~res.posted /\ res.client = client

C1_Witness ==
    /\ ConstructedLast
    /\ call.environment = <<"L", "O", "C", "A", "L">>
    /\ client.exists
    /\ client.headers = [k \in {"Content-Type"} |-> "application/json"]

(***************************************************************************)
(* C2: every upper/lower-case spelling of local, staging and prod resolves *)
(* to the documented base URL and auth requirement; any other name fails   *)
(* with the invalid-environment error before the credentials file is       *)
(* touched or a request is made.                                           *)
(***************************************************************************)
C2_ResolveEnvironment ==
    ConstructedLast =>
        /\ call.environment \in LocalSpellings =>
              /\ Succeeded /\ client.environment = EnvLocal
              /\ client.base_url = "http://localhost:8080"
              /\ lastFileRead.accesses = 0 /\ ~lastTokenReply.posted
        /\ call.environment \in StagingSpellings =>
              /\ lastFileRead.accesses > 0
              /\ lastFileRead.path = "~/idcarioca_staging.yaml"
              /\ ~(Failed /\ IsInvalidEnvironment(outcome.err))
              /\ Succeeded => /\ client.environment = EnvStaging
                              /\ client.base_url = "https://services.staging.app.dados.rio/rmi"
                              /\ lastTokenReply.posted
        /\ call.environment \in ProdSpellings =>
              /\ lastFileRead.accesses > 0
              /\ lastFileRead.path = "~/idcarioca_prod.yaml"
              /\ ~(Failed /\ IsInvalidEnvironment(outcome.err))
              /\ Succeeded => /\ client.environment = EnvProd
                              /\ client.base_url = "https://services.pref.rio/rmi"
                              /\ lastTokenReply.posted
        /\ call.environment \notin LocalSpellings \cup StagingSpellings \cup ProdSpellings =>
              /\ Failed /\ IsInvalidEnvironment(outcome.err)
              /\ lastFileRead.accesses = 0 /\ ~lastTokenReply.posted
              /\ ~client.exists

C2_Witness ==
    /\ ConstructedLast
    /\ call.environment = <<"S", "t", "A", "g", "I", "n", "G">>
    /\ Succeeded
    /\ client.base_url = "https://services.staging.app.dados.rio/rmi"

(***************************************************************************)
(* C3: a 200 reply of the token endpoint whose body does not decode, or    *)
(* decodes without an access_token field, fails the acquisition with the   *)
(* malformed-token-response error, never with a transport error.           *)
(***************************************************************************)
C3_MalformedTokenResponse ==
    (/\ TokenAnswered
     /\ lastTokenReply.reply.status = 200
     /\ \/ lastTokenReply.reply.body.kind = "garbage"
        \/ /\ lastTokenReply.reply.body.kind = "object"
           /\ "access_token" \notin lastTokenReply.reply.body.keys) =>
        /\ Failed
        /\ IsMalformedTokenResponse(outcome.err)
        /\ ~IsTransportError(outcome.err)

(***************************************************************************)
(* C4 as stated: every non-200 reply of the token endpoint fails the       *)
(* acquisition with the authentication-failed error, the error carries the *)
(* HTTP status and the response body, and the body is not decoded.         *)
(***************************************************************************)
C4_CarriesStatusAndBody ==
    (TokenAnswered /\ lastTokenReply.reply.status # 200) =>
        /\ Failed
        /\ IsAuthenticationFailed(outcome.err)
        /\ StatusText(lastTokenReply.reply.status) \in ErrTexts(outcome.err)
        /\ lastTokenReply.reply.body.text \in ErrTexts(outcome.err)
        /\ ~lastTokenReply.parsed

(***************************************************************************)
(* C4 as amended: every non-200 reply of the token endpoint fails the      *)
(* acquisition with the authentication-failed error, whose message is      *)
(* exactly the fixed text followed by the HTTP status (the response body   *)
(* is not part of the error), and the body is not decoded.                 *)
(***************************************************************************)
C4_AuthenticationFailed ==
    (TokenAnswered /\ lastTokenReply.reply.status # 200) =>
        /\ Failed
        /\ ~client.exists
        /\ outcome.err = Err("Exception", <<"Authentication failed with status: ",
                                            StatusText(lastTokenReply.reply.status)>>)
        /\ lastTokenReply.reply.body.text \notin ErrTexts(outcome.err)
        /\ ~lastTokenReply.parsed

C4_Witness ==
    /\ TokenAnswered
    /\ lastTokenReply.reply.status = 401
    /\ "access_token" \in lastTokenReply.reply.body.keys
    /\ Failed
    /\ "401" \in ErrTexts(outcome.err)

(***************************************************************************)
(* C5: when the credentials file parses to a document, loading fails with  *)
(* the missing-fields error exactly when some of issuer, client_id and     *)
(* client_secret is absent from the OAuth section, and the error names     *)
(* exactly the absent fields, all of them.                                 *)
(***************************************************************************)
\* the last construction opened the file and parsed it into a document
ParsedDocument ==
    /\ ConstructedLast
    /\ lastFileRead.accesses = 2
    /\ lastFileRead.file.readable
    /\ lastFileRead.file.yaml_ok \/ lastFileRead.file.json_ok
    /\ ~lastFileRead.file.doc.null

OAuthSection ==
    IF lastFileRead.file.doc.hasOauth2
    THEN lastFileRead.file.doc.section
    ELSE lastFileRead.file.doc.top

FailureKinds ==
    {"InvalidEnvironment", "CredentialsFileNotFound", "CredentialsParseError",
     "MissingCredentialFields", "AuthenticationFailed", "MalformedTokenResponse",
     "TransportError"}

\* why the last construction failed, read off what it met
FailureCause ==
    IF call.environment \notin LocalSpellings \cup StagingSpellings \cup ProdSpellings
    THEN "InvalidEnvironment"
    ELSE IF lastTokenReply.posted
    THEN IF lastTokenReply.reply.fault # "" THEN "TransportError"
         ELSE IF lastTokenReply.reply.status # 200 THEN "AuthenticationFailed"
         ELSE "MalformedTokenResponse"
    ELSE IF ~lastFileRead.file.exists THEN "CredentialsFileNotFound"
    ELSE IF ~lastFileRead.file.readable THEN "Other"
    ELSE IF ~lastFileRead.file.yaml_ok /\ ~lastFileRead.file.json_ok THEN "CredentialsParseError"
    ELSE IF lastFileRead.file.doc.null THEN "Other"
    ELSE "MissingCredentialFields"

GoodFile == File(TRUE, TRUE, TRUE, TRUE, Doc(FALSE, TRUE, {}, RequiredSet))

\* the exception class a plain instance of each failure kind surfaces as
SurfacedClass(kind) ==
    LET r == CASE kind = "InvalidEnvironment" ->
                     APIClientInit(<<"d", "e", "v">>, GoodFile, NoReply, jsonErrorClass)
               [] kind = "CredentialsFileNotFound" ->
                     APIClientInit(EnvStaging, AbsentFile, NoReply, jsonErrorClass)
               [] kind = "CredentialsParseError" ->
                     APIClientInit(EnvStaging, GarbageFile, NoReply, jsonErrorClass)
               [] kind = "MissingCredentialFields" ->
                     APIClientInit(EnvStaging,
                         File(TRUE, TRUE, TRUE, TRUE,
                              Doc(FALSE, FALSE, {"issuer", "client_id"}, {})),
                         NoReply, jsonErrorClass)
               [] kind = "AuthenticationFailed" ->
                     APIClientInit(EnvStaging, GoodFile,
                         Reply("", 401, Body("{\"error\":\"invalid_client\"}", "object",
                                             {"error"}, "")), jsonErrorClass)
               [] kind = "MalformedTokenResponse" ->
                     APIClientInit(EnvStaging, GoodFile,
                         Reply("", 200, Body("{\"token_type\":\"Bearer\"}", "object",
                                             {"token_type"}, "")), jsonErrorClass)
               [] OTHER ->
                     APIClientInit(EnvStaging, GoodFile,
                         Reply("requests.exceptions.ConnectionError", 0, NoBody), jsonErrorClass)
    IN  r.err.cls

C6_KindsDistinguishable ==
    (ConstructedLast /\ Failed /\ FailureCause \in FailureKinds) =>
        \A other \in FailureKinds \ {FailureCause} : outcome.err.cls # SurfacedClass(other)

(***************************************************************************)
(* C7: a POST or PUT given both form data and a JSON payload sends the     *)
(* JSON payload as the body of the outgoing request.                       *)
(***************************************************************************)
C7_JsonTakesPrecedence ==
    (/\ call.op \in {"post", "put"}
     /\ DictTruthy(call.data)
     /\ DictTruthy(call.json_data)) =>
        lastRequest.body = SentBody("json", call.json_data[1])

(***************************************************************************)
(* C8: the headers of every outgoing GET, POST, PUT and DELETE are the     *)
(* client's default headers overlaid with the per-call headers: a key of   *)
(* the per-call headers has the per-call value, every other default key    *)
(* keeps its default value, and there are no other keys.                   *)
(***************************************************************************)
CallHeaders == IF call.headers = None THEN EmptyDict ELSE call.headers[1]

C8_HeadersOverlay ==
    call.op \in RequestOps =>
        /\ lastRequest.sent
        /\ DOMAIN lastRequest.headers = DOMAIN client.headers \cup DOMAIN CallHeaders
        /\ \A k \in DOMAIN CallHeaders : lastRequest.headers[k] = CallHeaders[k]
        /\ \A k \in DOMAIN client.headers \ DOMAIN CallHeaders :
              lastRequest.headers[k] = client.headers[k]

C8_Witness ==
    /\ call.op = "delete"
    /\ CallHeaders = [k \in {"Content-Type"} |-> "text/plain"]
    /\ client.headers["Content-Type"] = "application/json"
    /\ "Authorization" \in DOMAIN client.headers
    /\ lastRequest.headers["Content-Type"] = "text/plain"
    /\ lastRequest.headers["Authorization"] = client.headers["Authorization"]

(***************************************************************************)
(* C9: a GET, POST, PUT or DELETE call leaves the client's default         *)
(* headers, access token and base URL as they were, touches neither the    *)
(* credentials file nor the token endpoint, and, unless the call overrides *)
(* Authorization, sends the Authorization value of the default headers.    *)
(***************************************************************************)
AuthorizationOf(h) == IF "Authorization" \in DOMAIN h THEN Some(h["Authorization"]) ELSE None

C9_ClientImmutable ==
    [][(nCalls' = nCalls + 1) =>
          /\ call'.op \in RequestOps
          /\ client.exists
          /\ client' = client
          /\ ~lastTokenReply'.posted
          /\ lastFileRead'.accesses = 0
          /\ (call'.headers = None \/ "Authorization" \notin DOMAIN call'.headers[1]) =>
                AuthorizationOf(lastRequest'.headers) = AuthorizationOf(client.headers)]_vars

C9_Witness ==
    /\ nCalls = 2
    /\ call.op = "post"
    /\ call.headers = Some([k \in {"X-Request-Id"} |-> "r1"])
    /\ client.access_token = Some("abc123")
    /\ client.headers["Authorization"] = "Bearer abc123"
    /\ lastRequest.headers["Authorization"] = "Bearer abc123"

(***************************************************************************)
(* C10: every GET, POST, PUT or DELETE call dispatches exactly one HTTP    *)
(* request and ends either by returning the response as received, whatever *)
(* its status, or by raising the transport error.                          *)
(***************************************************************************)
C10_SingleAttempt ==
    [][(nCalls' = nCalls + 1) =>
          /\ apiRequests' = apiRequests + 1
          /\ lastRequest'.sent
          /\ lastRequest'.timeout = 30
          /\ IF lastResponse'.fault = ""
             THEN outcome' = Outcome("returned", NoErr, lastResponse')
             ELSE /\ outcome'.kind = "raised"
                  /\ outcome'.err.cls = lastResponse'.fault
                  /\ IsTransportError(outcome'.err)]_vars

C10_Witness ==
    /\ call.op = "get"
    /\ apiRequests = 1
    /\ lastResponse.status = 404
    /\ outcome.kind = "returned"
    /\ outcome.response.status = 404

(***************************************************************************)
(* C11: a client successfully constructed for an environment that requires *)
(* authentication has the default header Authorization: Bearer <token>,    *)
(* for every access_token value a 200 reply of the token endpoint can      *)
(* carry, the empty string included.                                       *)
(***************************************************************************)
C11_AuthRequiredHasBearer ==
    (/\ ConstructedLast
     /\ Succeeded
     /\ call.environment \in StagingSpellings \cup ProdSpellings) =>
        /\ client.exists
        /\ lastTokenReply.posted
        /\ lastTokenReply.reply.status = 200
        /\ client.access_token = Some(lastTokenReply.reply.body.access_token)
        /\ "Authorization" \in DOMAIN client.headers
        /\ client.headers["Authorization"] = "Bearer " \o lastTokenReply.reply.body.access_token
====
